---- MODULE Spec2Model ----
(***************************************************************************)
(* Website Performance Analyzer: the page measurement get_website_speed    *)
(* (src/base.py, memoized with st.cache_data, and src/multi-base.py), the  *)
(* internal link collector collect_internal_links and the "Analyze" batch  *)
(* loops of both Streamlit scripts.                                        *)
(***************************************************************************)
EXTENDS Integers, Sequences, FiniteSets, TLC

VARIABLES
    variant,            \* "base" (src/base.py) or "multi" (src/multi-base.py)
    platform,           \* platform.system()
    cache,              \* st.cache_data table of get_website_speed (base.py only)
    m_args,             \* arguments of the get_website_speed call under study
    m_env,              \* what the browser-automation layer did during that call
    m_out,              \* how that call ended
    l_in,               \* inputs of collect_internal_links
    l_out,              \* its return value
    l_pc,               \* "ready" / "done"
    url,                \* st.text_input value at the click
    pc,                 \* position of the Analyze handler
    pages_to_test,
    browsers_to_test,
    pi,                 \* index of the page of the outer loop
    bi,                 \* index of the browser of the inner loop
    page_results,
    all_results,
    errors,             \* st.error displays of the run, in order
    calls,              \* get_website_speed invocations of the run, in order
    history,            \* first result each (url, browser) key returned
    last                \* the most recent get_website_speed call of the run

sharedVars == <<variant, platform, cache>>
measureVars == <<m_args, m_env, m_out>>
linkVars == <<l_in, l_out, l_pc>>
appVars == <<url, pc, pages_to_test, browsers_to_test, pi, bi, page_results,
             all_results, errors, calls, history, last>>
vars == <<sharedVars, measureVars, linkVars, appVars>>

-----------------------------------------------------------------------------
(* Bounds of the model *)

MaxTime == 2        \* navigation-timing marks range over 0..MaxTime
MaxMark == 1        \* DNS / TCP sub-phase marks range over 0..MaxMark
MaxAnchors == 2     \* <a href> elements on the fetched seed page
MaxLinksArg == 2    \* max_links arguments tried on collect_internal_links

Variants == {"base", "multi"}
Platforms == {"Darwin", "Linux"}
BrowserNames == {"Chrome", "Firefox", "Edge", "Safari", "Opera"}

-----------------------------------------------------------------------------
(* URLs.  A URL string is represented by its urlparse decomposition; two   *)
(* strings are equal exactly when the three components are.                *)

MkUrl(s, n, p) == [scheme |-> s, netloc |-> n, path |-> p]

SiteRoot == MkUrl("https", "streamlit.io", "")
SiteDocs == MkUrl("https", "streamlit.io", "/docs")
EmptyUrl == MkUrl("", "", "")
BareWord == MkUrl("", "", "streamlit")

hrefSelf == MkUrl("https", "streamlit.io", "")
hrefAbout == MkUrl("", "", "/about")
hrefExternal == MkUrl("https", "github.com", "/streamlit")

Hrefs == {hrefSelf, hrefAbout, hrefExternal}

is_valid_url(u) == u.scheme # "" /\ u.netloc # ""

\* f"{parsed_base.scheme}://{parsed_base.netloc}"
DomainOf(base) == MkUrl(base.scheme, base.netloc, "")

\* urllib.parse.urljoin(domain, href) for a domain with an empty path
urljoin(domain, href) ==
    IF href.scheme # "" THEN href
    ELSE IF href.netloc # "" THEN MkUrl(domain.scheme, href.netloc, href.path)
    ELSE IF href.path = "" THEN domain
    ELSE MkUrl(domain.scheme, domain.netloc, href.path)

-----------------------------------------------------------------------------
(* collect_internal_links                                                  *)

SeqsUpTo(S, n) == UNION {[1..k -> S] : k \in 0..n}

Range(s) == {s[i] : i \in DOMAIN s}

NoDuplicates(s) == \A i, j \in DOMAIN s : s[i] = s[j] => i = j

\* list(links): every ordering of the set is a possible result
ListsOf(S) == {s \in [1..Cardinality(S) -> S] : Range(s) = S}

\* the for loop over soup.find_all('a', href=True), from anchor i on
RECURSIVE ScanAnchors(_, _, _, _, _)
ScanAnchors(base, anchors, max_links, i, links) ==
    IF i > Len(anchors) THEN links
    ELSE LET href == urljoin(DomainOf(base), anchors[i])
             added == IF href.netloc = base.netloc THEN links \cup {href}
                      ELSE links
         IN  IF Cardinality(added) >= max_links THEN added
             ELSE ScanAnchors(base, anchors, max_links, i + 1, added)

\* the set of lists collect_internal_links(base_url, max_links) can return
\* when requests.get behaves as fetch says
collect_internal_links(base_url, max_links, fetch) ==
    IF fetch.outcome = "raise" THEN {<<>>}
    ELSE IF fetch.status # 200 THEN {<<>>}
    ELSE ListsOf(ScanAnchors(base_url, fetch.anchors, max_links, 1, {}))

Fetches ==
    {[outcome |-> "raise", status |-> 0, anchors |-> <<>>],
     [outcome |-> "ok", status |-> 404, anchors |-> <<>>]}
    \cup {[outcome |-> "ok", status |-> 200, anchors |-> a] :
             a \in SeqsUpTo(Hrefs, MaxAnchors)}

-----------------------------------------------------------------------------
(* The browser-automation layer as get_website_speed sees it               *)

\* Python dicts: functions whose domain is the set of keys present
Dicts(keys, vals) == UNION {[K -> vals] : K \in SUBSET keys}

Merge(a, b) ==
    [k \in DOMAIN a \cup DOMAIN b |-> IF k \in DOMAIN a THEN a[k] ELSE b[k]]

\* d.get(k, default)
Get(d, k, default) == IF k \in DOMAIN d THEN d[k] ELSE default

\* window.performance.timing, as read by base.py
LegacyMainKeys == {"navigationStart", "responseStart", "domComplete"}
LegacyMarkKeys == {"domainLookupStart", "domainLookupEnd",
                   "connectStart", "connectEnd"}
LegacySnapshots ==
    {Merge(a, b) : a \in Dicts(LegacyMainKeys, 0..MaxTime),
                   b \in Dicts(LegacyMarkKeys, 0..MaxMark)}

\* performance.getEntriesByType('navigation')[0], as read by multi-base.py
NavEntryKeys == {"startTime", "responseStart", "domComplete", "duration"}
NavEntrySnapshots == Dicts(NavEntryKeys, 0..MaxTime)

Snapshots(v) == IF v = "base" THEN LegacySnapshots ELSE NavEntrySnapshots

\* a snapshot of a page that loaded normally
TypicalSnapshot(v) ==
    IF v = "base"
    THEN [k \in LegacyMainKeys \cup LegacyMarkKeys |->
             IF k \in {"domComplete", "domainLookupEnd", "connectEnd"}
             THEN 1 ELSE 0]
    ELSE [k \in NavEntryKeys |->
             IF k \in {"domComplete", "duration"} THEN 1 ELSE 0]

\* resource-timing entries; nulls are the keys whose value is null
\* name is the resource URL split at "/", the last segment split at "?"
resStyle ==
    [name |-> [dirs |-> <<"https:", "", "x.test", "a">>,
               file |-> "style.css", query |-> "v=2"],
     initiatorType |-> "css", duration |-> 120, transferSize |-> 2048,
     nulls |-> {}]
resNoSize ==
    [name |-> [dirs |-> <<"https:", "", "x.test">>,
               file |-> "app.js", query |-> ""],
     initiatorType |-> "script", duration |-> 40, transferSize |-> 0,
     nulls |-> {"transferSize"}]

ResourceLists == {<<>>, <<resStyle>>, <<resStyle, resNoSize>>}

TimingRaise == [kind |-> "raise", entry |-> <<>>]
TimingNone == [kind |-> "none", entry |-> <<>>]
TimingEntry(s) == [kind |-> "entry", entry |-> s]
ResRaise == [kind |-> "raise", entries |-> <<>>]
ResOk(l) == [kind |-> "ok", entries |-> l]

MkEnv(c, g, t, r, q) ==
    [ctor |-> c, get |-> g, timing |-> t, resources |-> r, quit |-> q]

\* behaviours of the driver during one call: each step either works or
\* raises; steps after a raising one are never reached
Envs(v) ==
    {MkEnv("raise", "ok", TimingNone, ResOk(<<>>), "ok")}
    \cup {MkEnv("ok", "raise", TimingNone, ResOk(<<>>), q) : q \in {"ok", "raise"}}
    \cup {MkEnv("ok", "ok", t, ResOk(<<>>), q) :
             t \in {TimingRaise, TimingNone}, q \in {"ok", "raise"}}
    \cup {MkEnv("ok", "ok", TimingEntry(s), ResOk(<<>>), q) :
             s \in Snapshots(v), q \in {"ok", "raise"}}
    \cup {MkEnv("ok", "ok", TimingEntry(TypicalSnapshot(v)), r, q) :
             r \in {ResRaise} \cup {ResOk(l) : l \in ResourceLists},
             q \in {"ok", "raise"}}

-----------------------------------------------------------------------------
(* get_website_speed                                                       *)

ErrorResult(prefix, msg) == [Error |-> <<prefix, msg>>]

\* {"Error": f"An unexpected error occurred: {str(e)}"}
UnexpectedError(e) == ErrorResult("An unexpected error occurred: ", e)

IsError(result) == "Error" \in DOMAIN result

\* how the try block ends: a return value or an exception in flight, with
\* whether a webdriver constructor was called and whether the local
\* variable driver holds a session
Returns(v, c, d) == [kind |-> "return", value |-> v, ctor |-> c, driver |-> d]
Raises(e, c, d) == [kind |-> "except", value |-> e, ctor |-> c, driver |-> d]

\* base.py: "Name": resource.get('name', '').split('/')[-1].split('?')[0]
\* transferSize / 1024 on sizes that are whole numbers of KB
LegacyResourceRow(r) ==
    [Name |-> r.name.file,
     Type |-> r.initiatorType,
     Duration |-> r.duration,
     SizeKB |-> r.transferSize \div 1024]

\* multi-base.py: the last "/" segment, query included; the whole URL when
\* that segment is empty
NavResourceRow(r) ==
    [Name |-> IF r.name.file = "" /\ r.name.query = "" THEN r.name
              ELSE [file |-> r.name.file, query |-> r.name.query],
     URL |-> r.name,
     Type |-> r.initiatorType,
     Duration |-> r.duration]

\* the rows of "Resource Data", in the order the browser reported them
LegacyResourceData(entries) ==
    [i \in DOMAIN entries |-> LegacyResourceRow(entries[i])]

NavResourceData(entries) ==
    [i \in DOMAIN entries |-> NavResourceRow(entries[i])]

\* the metrics with the frontend time measured from navigationStart
LegacyTimings_fromStart(timing_info) ==
    LET navigation_start == Get(timing_info, "navigationStart", 0)
        response_start == Get(timing_info, "responseStart", 0)
        dom_complete == Get(timing_info, "domComplete", 0)
    IN  [TTFB |-> response_start - navigation_start,
         Frontend |-> dom_complete - navigation_start,
         Total |-> dom_complete - navigation_start,
         DNS |-> Get(timing_info, "domainLookupEnd", 0)
                   - Get(timing_info, "domainLookupStart", 0),
         TCP |-> Get(timing_info, "connectEnd", 0)
                   - Get(timing_info, "connectStart", 0)]

\* base.py: the five metrics of the result dict
LegacyTimings(timing_info) ==
    LET navigation_start == Get(timing_info, "navigationStart", 0)
        response_start == Get(timing_info, "responseStart", 0)
        dom_complete == Get(timing_info, "domComplete", 0)
        domain_lookup_start == Get(timing_info, "domainLookupStart", 0)
        domain_lookup_end == Get(timing_info, "domainLookupEnd", 0)
        connect_start == Get(timing_info, "connectStart", 0)
        connect_end == Get(timing_info, "connectEnd", 0)
    IN  [TTFB |-> response_start - navigation_start,
         Frontend |-> dom_complete - response_start,
         Total |-> dom_complete - navigation_start,
         DNS |-> domain_lookup_end - domain_lookup_start,
         TCP |-> connect_end - connect_start]

\* src/base.py lines 48-99
TryBlockBase(browser_name, env) ==
    IF browser_name \notin {"Chrome", "Firefox", "Edge"}
    THEN Raises("Unsupported browser selected.", FALSE, FALSE)
    ELSE IF env.ctor = "raise"
    THEN Raises("WebDriverException: session not created", TRUE, FALSE)
    ELSE IF env.get = "raise"
    THEN Raises("WebDriverException: navigation failed", TRUE, TRUE)
    ELSE IF env.timing.kind = "raise"
    THEN Raises("JavascriptException", TRUE, TRUE)
    ELSE IF env.timing.kind = "none"
    THEN Raises("'NoneType' object has no attribute 'get'", TRUE, TRUE)
    ELSE
      LET timing_info == env.timing.entry
      IN  IF Get(timing_info, "domComplete", 0) = 0
          THEN Returns(ErrorResult("", "Page did not finish loading."), TRUE, TRUE)
          ELSE IF env.resources.kind = "raise"
          THEN Raises("JavascriptException", TRUE, TRUE)
          ELSE IF \E i \in DOMAIN env.resources.entries :
                     "transferSize" \in env.resources.entries[i].nulls
          THEN Raises("unsupported operand type(s) for /", TRUE, TRUE)
          ELSE Returns(
                 Merge(LegacyTimings(timing_info),
                       [ResourceData |->
                           LegacyResourceData(env.resources.entries)]),
                 TRUE, TRUE)

\* multi-base.py: the three metrics of the result dict
NavTimings(nav_timing) ==
    [Backend |-> Get(nav_timing, "responseStart", 0) - Get(nav_timing, "startTime", 0),
     Frontend |-> Get(nav_timing, "domComplete", 0) - Get(nav_timing, "responseStart", 0),
     Total |-> Get(nav_timing, "duration", 0)]

\* Safari launched whatever the host is
SafariAvailable_anyHost(host) == TRUE

\* platform.system() != "Darwin" refuses Safari
SafariAvailable(host) == host = "Darwin"

\* src/multi-base.py lines 15-71
TryBlockMulti(host, browser_name, env) ==
    IF browser_name = "Safari" /\ ~SafariAvailable(host)
    THEN Returns(ErrorResult("", "Safari testing is only supported on macOS with SafariDriver enabled."),
                 FALSE, FALSE)
    ELSE IF browser_name \notin {"Chrome", "Firefox", "Edge", "Safari"}
    THEN Returns(ErrorResult("", "Unsupported browser selected."), FALSE, FALSE)
    ELSE IF env.ctor = "raise"
    THEN Raises("WebDriverException: session not created", TRUE, FALSE)
    ELSE IF env.get = "raise"
    THEN Raises("WebDriverException: navigation failed", TRUE, TRUE)
    ELSE IF env.timing.kind = "raise"
    THEN Raises("JavascriptException", TRUE, TRUE)
    ELSE IF env.timing.kind = "none" \/ DOMAIN env.timing.entry = {}
    THEN Returns(ErrorResult("", "Navigation timing data is unavailable."), TRUE, TRUE)
    ELSE IF env.resources.kind = "raise"
    THEN Raises("JavascriptException", TRUE, TRUE)
    ELSE Returns(
           Merge(NavTimings(env.timing.entry),
                 [ResourceData |->
                     NavResourceData(env.resources.entries)]),
           TRUE, TRUE)

\* except Exception as e: return {"Error": ...}
ExceptClause(t) ==
    IF t.kind = "except"
    THEN Returns(UnexpectedError(t.value), t.ctor, t.driver)
    ELSE t

\* driver.quit() at the end of the try block instead of in finally: only a
\* call that returns its metrics quits
FinallyClause_quitOnSuccess(t, env) ==
    LET quits == t.driver /\ ~IsError(t.value)
    IN  [kind |-> IF quits /\ env.quit = "raise" THEN "raise" ELSE "return",
         value |-> IF quits /\ env.quit = "raise"
                   THEN UnexpectedError("WebDriverException: quit failed")
                   ELSE t.value,
         ctor_calls |-> IF t.ctor THEN 1 ELSE 0,
         launched |-> IF t.driver THEN 1 ELSE 0,
         quit_calls |-> IF quits THEN 1 ELSE 0,
         cached |-> FALSE]

\* finally: if driver: driver.quit()    -- an exception raised by quit
\* replaces the pending return value
FinallyClause(t, env) ==
    [kind |-> IF t.driver /\ env.quit = "raise" THEN "raise" ELSE "return",
     value |-> IF t.driver /\ env.quit = "raise"
               THEN UnexpectedError("WebDriverException: quit failed")
               ELSE t.value,
     ctor_calls |-> IF t.ctor THEN 1 ELSE 0,
     launched |-> IF t.driver THEN 1 ELSE 0,
     quit_calls |-> IF t.driver THEN 1 ELSE 0,
     cached |-> FALSE]

\* one execution of the function body
get_website_speed(v, host, browser_name, env) ==
    FinallyClause(
        ExceptClause(IF v = "base" THEN TryBlockBase(browser_name, env)
                     ELSE TryBlockMulti(host, browser_name, env)),
        env)

\* @st.cache_data on base.py's get_website_speed: the table is keyed on the
\* arguments, stores return values only, and is never evicted
EmptyCache == <<>>

CacheKey(u, browser_name) == <<u, browser_name>>

CachePut(c, key, value) ==
    [k \in DOMAIN c \cup {key} |-> IF k = key THEN value ELSE c[k]]

CacheHit(value) ==
    [kind |-> "return", value |-> value, ctor_calls |-> 0, launched |-> 0,
     quit_calls |-> 0, cached |-> TRUE]

\* a call of get_website_speed as the scripts make it
CallOutcome(c, v, host, u, browser_name, env) ==
    IF v = "base" /\ CacheKey(u, browser_name) \in DOMAIN c
    THEN CacheHit(c[CacheKey(u, browser_name)])
    ELSE get_website_speed(v, host, browser_name, env)

\* a table that keeps the metrics and forgets the error values
CacheAfter_metricsOnly(c, v, u, browser_name, out) ==
    IF v = "base" /\ ~out.cached /\ out.kind = "return" /\ ~IsError(out.value)
    THEN CachePut(c, CacheKey(u, browser_name), out.value)
    ELSE c

CacheAfter(c, v, u, browser_name, out) ==
    IF v = "base" /\ ~out.cached /\ out.kind = "return"
    THEN CachePut(c, CacheKey(u, browser_name), out.value)
    ELSE c

-----------------------------------------------------------------------------
(* Values of the variables a specification does not use *)

NotCalled ==
    [kind |-> "pending", value |-> <<>>, ctor_calls |-> 0, launched |-> 0,
     quit_calls |-> 0, cached |-> FALSE]

NoFetch == [outcome |-> "raise", status |-> 0, anchors |-> <<>>]

NoCall ==
    [key |-> CacheKey(EmptyUrl, ""),
     env |-> MkEnv("ok", "ok", TimingNone, ResOk(<<>>), "ok"),
     out |-> NotCalled]

MeasureOff ==
    /\ m_args = [url |-> EmptyUrl, browser_name |-> "Chrome"]
    /\ m_env = MkEnv("ok", "ok", TimingNone, ResOk(<<>>), "ok")
    /\ m_out = NotCalled

LinksOff ==
    /\ l_in = [base_url |-> EmptyUrl, max_links |-> 0, fetch |-> NoFetch]
    /\ l_out = <<>>
    /\ l_pc = "off"

AppOff ==
    /\ url = EmptyUrl
    /\ pc = "off"
    /\ pages_to_test = <<>>
    /\ browsers_to_test = <<>>
    /\ pi = 0
    /\ bi = 0
    /\ page_results = <<>>
    /\ all_results = <<>>
    /\ errors = <<>>
    /\ calls = <<>>
    /\ history = <<>>
    /\ last = NoCall

-----------------------------------------------------------------------------
(* SpecMeasure: calls of get_website_speed with one pair of arguments      *)

\* the second call of a pair meets one of these behaviours
RepeatEnvs(v) ==
    {MkEnv("raise", "ok", TimingNone, ResOk(<<>>), "ok"),
     MkEnv("ok", "ok", TimingEntry(TypicalSnapshot(v)), ResOk(<<resStyle>>), "ok"),
     MkEnv("ok", "ok", TimingEntry(TypicalSnapshot(v)), ResOk(<<>>), "raise")}

InitMeasure ==
    /\ variant \in Variants
    /\ platform \in (IF variant = "multi" THEN Platforms ELSE {"Linux"})
    /\ cache = EmptyCache
    /\ m_args \in [url : {SiteRoot}, browser_name : BrowserNames]
    /\ m_env \in Envs(variant)
    /\ m_out = NotCalled
    /\ LinksOff
    /\ AppOff

\* result = get_website_speed(url, browser), first call of the pair
Measure ==
    /\ m_out.kind = "pending"
    /\ LET out == CallOutcome(cache, variant, platform, m_args.url,
                              m_args.browser_name, m_env)
       IN  /\ m_out' = out
           /\ cache' = CacheAfter(cache, variant, m_args.url,
                                  m_args.browser_name, out)
    /\ UNCHANGED <<variant, platform, m_args, m_env, linkVars, appVars>>

\* the same call made again (another click on the button)
MeasureAgain ==
    /\ m_out.kind # "pending"
    /\ \E env \in RepeatEnvs(variant) :
          LET out == CallOutcome(cache, variant, platform, m_args.url,
                                 m_args.browser_name, env)
          IN  /\ m_env' = env
              /\ m_out' = out
              /\ cache' = CacheAfter(cache, variant, m_args.url,
                                     m_args.browser_name, out)
    /\ UNCHANGED <<variant, platform, m_args, linkVars, appVars>>

NextMeasure == Measure \/ MeasureAgain

SpecMeasure == InitMeasure /\ [][NextMeasure]_vars

-----------------------------------------------------------------------------
(* Properties of get_website_speed, checked under SpecMeasure              *)

Finished == m_out.kind \in {"return", "raise"}

TimingFieldNames == {"TTFB", "Backend", "Frontend", "Total", "DNS", "TCP"}

TimingFieldsOf(result) == DOMAIN result \cap TimingFieldNames

ExpectedTimingFields(v) ==
    IF v = "base" THEN {"TTFB", "Frontend", "Total", "DNS", "TCP"}
    ELSE {"Backend", "Frontend", "Total"}

\* the marks of the snapshot the call read, with the defaults of dict.get
NavStartOf(v, s) ==
    Get(s, IF v = "base" THEN "navigationStart" ELSE "startTime", 0)
ResponseStartOf(s) == Get(s, "responseStart", 0)
DomCompleteOf(s) == Get(s, "domComplete", 0)
BackendOf(v, result) == IF v = "base" THEN result.TTFB ELSE result.Backend

\* the call executed its body and came back with metrics
Measured == m_out.kind = "return" /\ ~m_out.cached /\ ~IsError(m_out.value)

\* C1: when a call of get_website_speed has finished (by a return or by an
\* exception), driver.quit has been called on the session the call launched,
\* on every exit path.
Thm_C1_SessionQuitOnEveryExit ==
    (Finished /\ m_out.launched = 1) => m_out.quit_calls = 1

\* a call whose navigation raised: the session was launched and was quit
Wit_C1_QuitAfterNavigationFault ==
    /\ m_out.kind = "return"
    /\ ~m_out.cached
    /\ m_env.get = "raise"
    /\ IsError(m_out.value)
    /\ m_out.launched = 1
    /\ m_out.quit_calls = 1

\* a failure of the automation layer met by the call
FaultMet ==
    /\ ~m_out.cached
    /\ m_out.ctor_calls = 1
    /\ \/ m_env.ctor = "raise"
       \/ m_env.get = "raise"
       \/ m_env.get = "ok" /\ m_env.timing.kind = "raise"
       \/ m_env.ctor = "ok" /\ m_env.quit = "raise"

\* C2: no fault escapes get_website_speed: whatever step of the automation
\* layer fails (teardown included), the call returns a dict with "Error".
Cex_C2_NoFaultEscapes ==
    (Finished /\ FaultMet) => (m_out.kind = "return" /\ IsError(m_out.value))

\* C3: a returned result either carries "Error" and no timing field, or
\* carries no "Error" and all its timing fields, each >= 0.
Cex_C3_ErrorXorNonNegativeTimings ==
    m_out.kind = "return" =>
        LET r == m_out.value
        IN  IF IsError(r) THEN TimingFieldsOf(r) = {}
            ELSE /\ TimingFieldsOf(r) = ExpectedTimingFields(variant)
                 /\ \A f \in TimingFieldsOf(r) : r[f] >= 0

\* C4: after navigation, a missing navigation-timing entry or a zero or
\* absent domComplete gives an error result without timing fields.
Cex_C4_IncompleteLoadIsError ==
    ( /\ m_out.kind = "return"
      /\ ~m_out.cached
      /\ m_out.launched = 1
      /\ m_env.get = "ok"
      /\ m_env.timing.kind # "raise"
      /\ \/ m_env.timing.kind = "none"
         \/ DomCompleteOf(m_env.timing.entry) = 0 )
    => (IsError(m_out.value) /\ TimingFieldsOf(m_out.value) = {})

\* the browser name is outside {Chrome, Firefox, Edge, Safari}, or is Safari
\* on a host that is not macOS
Unlaunchable ==
    \/ m_args.browser_name \notin {"Chrome", "Firefox", "Edge", "Safari"}
    \/ m_args.browser_name = "Safari" /\ platform # "Darwin"

\* C5: for an unsupported browser name, or Safari off macOS, the call
\* returns an error result and calls no webdriver constructor.
Thm_C5_UnsupportedNeverLaunches ==
    (Finished /\ Unlaunchable) =>
        /\ m_out.kind = "return"
        /\ IsError(m_out.value)
        /\ m_out.ctor_calls = 0
        /\ m_out.launched = 0

\* multi-base.py asked for Safari on Linux
Wit_C5_SafariOffMac ==
    /\ variant = "multi"
    /\ platform = "Linux"
    /\ m_args.browser_name = "Safari"
    /\ m_out.kind = "return"
    /\ IsError(m_out.value)
    /\ m_out.ctor_calls = 0

\* C9 as stated: with navigationStart <= responseStart <= domComplete a
\* successful measurement has backend = responseStart - navigationStart,
\* frontend = domComplete - responseStart, total = domComplete -
\* navigationStart, so backend + frontend = total.
Cex_C9_TotalIsDomCompleteMinusStart ==
    Measured =>
        LET s == m_env.timing.entry
            r == m_out.value
            nav == NavStartOf(variant, s)
            resp == ResponseStartOf(s)
            dom == DomCompleteOf(s)
        IN  (nav <= resp /\ resp <= dom) =>
                /\ BackendOf(variant, r) = resp - nav
                /\ r.Frontend = dom - resp
                /\ r.Total = dom - nav
                /\ BackendOf(variant, r) + r.Frontend = r.Total

\* the example of the specification: 1000 / 1300 / 2400
ExampleLegacyTiming ==
    [navigationStart |-> 1000, responseStart |-> 1300, domComplete |-> 2400]

\* C9 amended: backend and frontend are those differences in both scripts;
\* the total is domComplete - navigationStart (so backend + frontend =
\* total, 300 + 1100 = 1400 in the example) in base.py, and the entry's
\* duration (0 when absent) in multi-base.py.
Thm_C9_TimingDifferences ==
    /\ LegacyTimings(ExampleLegacyTiming).TTFB = 300
    /\ LegacyTimings(ExampleLegacyTiming).Frontend = 1100
    /\ LegacyTimings(ExampleLegacyTiming).Total = 1400
    /\ Measured =>
        LET s == m_env.timing.entry
            r == m_out.value
            nav == NavStartOf(variant, s)
            resp == ResponseStartOf(s)
            dom == DomCompleteOf(s)
        IN  (nav <= resp /\ resp <= dom) =>
                /\ BackendOf(variant, r) = resp - nav
                /\ r.Frontend = dom - resp
                /\ variant = "base" =>
                      /\ r.Total = dom - nav
                      /\ BackendOf(variant, r) + r.Frontend = r.Total
                /\ variant = "multi" => r.Total = Get(s, "duration", 0)

\* base.py measured a page with navigationStart < responseStart < domComplete
Wit_C9_StrictlyOrderedMarks ==
    /\ Measured
    /\ variant = "base"
    /\ NavStartOf(variant, m_env.timing.entry) < ResponseStartOf(m_env.timing.entry)
    /\ ResponseStartOf(m_env.timing.entry) < DomCompleteOf(m_env.timing.entry)
    /\ m_out.value.Total = m_out.value.TTFB + m_out.value.Frontend
    /\ m_out.value.Total > 0

-----------------------------------------------------------------------------
(* SpecLinks: collect_internal_links applied to bounded inputs             *)

InitLinks ==
    /\ variant = "multi"
    /\ platform \in Platforms
    /\ cache = EmptyCache
    /\ l_in \in [base_url : {SiteRoot, SiteDocs},
                 max_links : 0..MaxLinksArg,
                 fetch : Fetches]
    /\ l_out = <<>>
    /\ l_pc = "ready"
    /\ MeasureOff
    /\ AppOff

Collect ==
    /\ l_pc = "ready"
    /\ l_out' \in collect_internal_links(l_in.base_url, l_in.max_links, l_in.fetch)
    /\ l_pc' = "done"
    /\ UNCHANGED <<l_in, sharedVars, measureVars, appVars>>

NextLinks == Collect

SpecLinks == InitLinks /\ [][NextLinks]_vars

\* C7: collect_internal_links(seed, max_links) returns at most max_links
\* URLs, none twice, all on the seed's host, for every max_links >= 0.
Cex_C7_CappedUniqueSameHost ==
    l_pc = "done" =>
        /\ Len(l_out) <= l_in.max_links
        /\ NoDuplicates(l_out)
        /\ \A i \in DOMAIN l_out : l_out[i].netloc = l_in.base_url.netloc

\* the same statement for max_links >= 1
LinksCappedFromOne ==
    (l_pc = "done" /\ l_in.max_links >= 1) =>
        /\ Len(l_out) <= l_in.max_links
        /\ NoDuplicates(l_out)
        /\ \A i \in DOMAIN l_out : l_out[i].netloc = l_in.base_url.netloc

-----------------------------------------------------------------------------
(* SpecApp: the "Analyze Website Performance" handlers of both scripts     *)

\* max_links=10 at the call site
MaxInternalLinks == 10

UrlInputs == {SiteRoot, SiteDocs, EmptyUrl, BareWord}

\* available_browsers of base.py, in the order of the multiselect
available_browsers == <<"Chrome", "Firefox", "Edge">>

Selections ==
    {SelectSeq(available_browsers, LAMBDA b : b \in S) :
        S \in SUBSET Range(available_browsers)}

\* browser_options of multi-base.py
browser_options(host) ==
    {"All Browsers", "Chrome", "Firefox", "Edge"}
    \cup (IF host = "Darwin" THEN {"Safari"} ELSE {})

\* browsers_to_test of multi-base.py
BrowsersFor(browser_choice, host) ==
    IF browser_choice = "All Browsers"
    THEN <<"Chrome", "Firefox", "Edge">>
         \o (IF host = "Darwin" THEN <<"Safari">> ELSE <<>>)
    ELSE <<browser_choice>>

\* pages_to_test of multi-base.py, for one return value of the collector
PagesFor(u, test_scope, links) ==
    IF test_scope = "Test only this page" THEN <<u>> ELSE <<u>> \o links

Scopes == {"Test only this page", "Test up to 10 internal pages"}

\* requests.get on a string that is no URL raises
FetchesOf(u) ==
    IF is_valid_url(u) THEN Fetches ELSE {f \in Fetches : f.outcome = "raise"}

\* collect_internal_links(url, max_links=10), over every answer of the site
CollectedFrom(u) ==
    UNION {collect_internal_links(u, MaxInternalLinks, fetch) :
              fetch \in FetchesOf(u)}

\* what the driver does during the calls of a run
BatchEnvs(v) ==
    {MkEnv("ok", "ok", TimingEntry(TypicalSnapshot(v)), ResOk(<<resStyle>>), "ok"),
     MkEnv("ok", "raise", TimingNone, ResOk(<<>>), "ok"),
     MkEnv("ok", "ok", TimingEntry(TypicalSnapshot(v)), ResOk(<<>>), "raise")}

\* driver.get on a string that is no URL raises
EnvsFor(v, u) ==
    IF is_valid_url(u) THEN BatchEnvs(v)
    ELSE {e \in BatchEnvs(v) : e.get = "raise"}

\* base.py lines 131-136
ComparisonRow(browser, result) ==
    [Browser |-> browser,
     Total |-> Get(result, "Total", 0),
     TTFB |-> Get(result, "TTFB", 0),
     Frontend |-> Get(result, "Frontend", 0)]

\* multi-base.py lines 149-155
PageRow(page, browser, result) ==
    [Page |-> page,
     Browser |-> browser,
     Backend |-> Get(result, "Backend", 0),
     Frontend |-> Get(result, "Frontend", 0),
     Total |-> Get(result, "Total", 0)]

InitApp ==
    /\ variant \in Variants
    /\ platform \in (IF variant = "multi" THEN Platforms ELSE {"Linux"})
    /\ cache = EmptyCache
    /\ url = EmptyUrl
    /\ pc = "idle"
    /\ pages_to_test = <<>>
    /\ browsers_to_test = <<>>
    /\ pi = 0
    /\ bi = 0
    /\ page_results = <<>>
    /\ all_results = <<>>
    /\ errors = <<>>
    /\ calls = <<>>
    /\ history = <<>>
    /\ last = NoCall
    /\ MeasureOff
    /\ LinksOff

RunOver == pc \in {"idle", "rejected", "done", "aborted"}

StartRun(u, pages, browsers) ==
    /\ url' = u
    /\ pages_to_test' = pages
    /\ browsers_to_test' = browsers
    /\ pi' = 1
    /\ bi' = 1
    /\ page_results' = <<>>
    /\ all_results' = <<>>
    /\ errors' = <<>>
    /\ calls' = <<>>
    /\ pc' = "loop"

RejectRun(u) ==
    /\ url' = u
    /\ pages_to_test' = <<>>
    /\ browsers_to_test' = <<>>
    /\ pi' = 0
    /\ bi' = 0
    /\ page_results' = <<>>
    /\ all_results' = <<>>
    /\ errors' = <<>>
    /\ calls' = <<>>
    /\ pc' = "rejected"

\* base.py lines 115-121: the click, the two validations, the empty list
ClickBase ==
    /\ variant = "base"
    /\ RunOver
    /\ \E u \in UrlInputs, selected_browsers \in Selections :
          IF ~is_valid_url(u) THEN RejectRun(u)
          ELSE IF selected_browsers = <<>> THEN RejectRun(u)
          ELSE StartRun(u, <<u>>, selected_browsers)
    /\ UNCHANGED <<sharedVars, measureVars, linkVars, history, last>>

\* multi-base.py lines 118-134: the click, the page list, the browser list
ClickMulti ==
    /\ variant = "multi"
    /\ RunOver
    /\ \E u \in UrlInputs, test_scope \in Scopes,
          browser_choice \in browser_options(platform) :
          IF u = EmptyUrl THEN RejectRun(u)
          ELSE \E links \in CollectedFrom(u) :
                  StartRun(u, PagesFor(u, test_scope, links),
                           BrowsersFor(browser_choice, platform))
    /\ UNCHANGED <<sharedVars, measureVars, linkVars, history, last>>

\* one iteration of the loop: the call, then the error display or the row
MeasurePair ==
    /\ pc = "loop"
    /\ LET page == pages_to_test[pi]
           browser == browsers_to_test[bi]
           key == CacheKey(page, browser)
       IN  \E env \in EnvsFor(variant, page) :
             LET out == CallOutcome(cache, variant, platform, page, browser, env)
                 failed == IsError(out.value)
                 row == IF variant = "base" THEN ComparisonRow(browser, out.value)
                        ELSE PageRow(page, browser, out.value)
                 endOfPage == bi = Len(browsers_to_test)
                 endOfRun == endOfPage /\ pi = Len(pages_to_test)
                 rows == IF failed THEN page_results ELSE Append(page_results, row)
             IN  /\ cache' = CacheAfter(cache, variant, page, browser, out)
                 /\ calls' = Append(calls, key)
                 /\ last' = [key |-> key, env |-> env, out |-> out]
                 /\ history' = IF variant = "base" /\ out.kind = "return"
                                  /\ key \notin DOMAIN history
                               THEN CachePut(history, key, out.value)
                               ELSE history
                 /\ IF out.kind = "raise"
                    THEN /\ pc' = "aborted"
                         /\ UNCHANGED <<pi, bi, page_results, all_results, errors>>
                    ELSE /\ errors' = IF failed
                                      THEN Append(errors, [key |-> key, Error |-> out.value.Error])
                                      ELSE errors
                         /\ IF variant = "base"
                            THEN /\ all_results' = rows
                                 /\ page_results' = rows
                            ELSE /\ all_results' = IF endOfPage THEN all_results \o rows
                                                   ELSE all_results
                                 /\ page_results' = IF endOfPage /\ ~endOfRun THEN <<>>
                                                    ELSE rows
                         /\ bi' = IF endOfPage /\ ~endOfRun THEN 1 ELSE bi + 1
                         /\ pi' = IF endOfPage /\ ~endOfRun THEN pi + 1 ELSE pi
                         /\ pc' = IF endOfRun THEN "done" ELSE "loop"
    /\ UNCHANGED <<variant, platform, url, pages_to_test, browsers_to_test,
                   measureVars, linkVars>>

NextApp == ClickBase \/ ClickMulti \/ MeasurePair

SpecApp == InitApp /\ [][NextApp]_vars

-----------------------------------------------------------------------------
(* Properties of the batch loops, checked under SpecApp                    *)

TotalPairs == Len(pages_to_test) * Len(browsers_to_test)

\* the (page, browser) pairs, pages outer, browsers inner
ExpectedOrder ==
    [k \in 1..TotalPairs |->
        CacheKey(pages_to_test[((k - 1) \div Len(browsers_to_test)) + 1],
                 browsers_to_test[((k - 1) % Len(browsers_to_test)) + 1])]

RunEnded == pc \in {"done", "aborted"}

\* C6: when the batch loop has ended, every one of the N pairs was measured,
\* pages outer and browsers inner, and each gave one row or one error
\* display: successCount + errorCount = N, whatever pairs failed.
Cex_C6_EveryPairMeasured ==
    RunEnded =>
        /\ calls = ExpectedOrder
        /\ Len(all_results) + Len(errors) = TotalPairs

\* the same statement for the runs in which no call raised
EveryPairMeasuredUnlessRaised ==
    pc = "done" =>
        /\ calls = ExpectedOrder
        /\ Len(all_results) + Len(errors) = TotalPairs

\* C8: in multi-base.py the page list given to the loop holds no URL twice
\* (the seed included), so no (page, browser) pair is measured twice.
Cex_C8_PageListDeduplicated ==
    (variant = "multi" /\ pc \in {"loop", "done", "aborted"}) =>
        /\ NoDuplicates(pages_to_test)
        /\ NoDuplicates(calls)

\* C10: in base.py, a call whose key has already returned a result gets
\* that result again (metrics or error) without a constructor call or a
\* session; a call whose key has not returned yet executes the function
\* body; no entry of the table is dropped or overwritten.
Thm_C10_MemoizedResultIsFinal ==
    [][ (variant = "base" /\ Len(calls') = Len(calls) + 1) =>
          /\ IF last'.key \in DOMAIN history
             THEN /\ last'.out.kind = "return"
                  /\ last'.out.value = history[last'.key]
                  /\ last'.out.ctor_calls = 0
                  /\ last'.out.launched = 0
             ELSE ~last'.out.cached
          /\ \A k \in DOMAIN cache : k \in DOMAIN cache' /\ cache'[k] = cache[k]
      ]_vars

\* an error stored earlier is served to a call that would have succeeded
Wit_C10_CachedErrorServed ==
    /\ variant = "base"
    /\ last.out.cached
    /\ last.out.kind = "return"
    /\ IsError(last.out.value)
    /\ last.env.get = "ok"
    /\ last.env.quit = "ok"
    /\ last.out.launched = 0

====
